---------------------------- MODULE Spec2Model ----------------------------
(***************************************************************************)
(* A model of the ahofa NFA reduction tools:                               *)
(*   - pcapreader::get_payload / process_payload                           *)
(*       (reduction/src/pcap_reader.h)                                     *)
(*   - label_states, read_state_labels, check_float and main of the        *)
(*       reduce command (src/exe/reduce.cpp)                               *)
(*   - the evaluation sweep of par_test (src/exe/par_test.cpp)             *)
(* Each subsystem has a specification of its own (SpecPayload, ...); the   *)
(* variables of the other subsystems stay at their idle values.            *)
(***************************************************************************)
EXTENDS Integers, Sequences, FiniteSets, TLC

VARIABLES
    \* ---- pcap_reader.h ----
    frame,       \* the frame pcap_next_ex handed out: its headers as sent and caplen
    pc,          \* position inside process_payload / get_payload
    offset,      \* get_payload: size_t offset
    ether_type,  \* get_payload: uint16_t ether_type
    l4_proto,    \* get_payload: unsigned l4_proto
    payload,     \* process_payload: payload - packet, the returned pointer as an offset
    count,       \* process_payload: remaining packet count
    func_call,   \* whether func was invoked for the last frame, and the len it was given
    oob,         \* history: some header field of this frame was read at or past caplen
    \* ---- reduce.cpp, frequency mode (label_states) ----
    nfa,         \* the automaton: its state count and the index of its initial state
    state_freq,  \* main: vector<size_t> state_freq
    total,       \* main: size_t total, the payloads the callback was given
    seen_in,     \* history: per state, the payloads whose replay reported it at least once
    last_visits, \* history: the states parse_word reported for the last payload, in order
    \* ---- reduce.cpp, read_state_labels and its call in main ----
    rl_pc,       \* position inside read_state_labels / main
    buf,         \* read_state_labels: string buf, the line getline read
    ret,         \* read_state_labels: map<State, unsigned long> ret
    rl_error,    \* what() of the exception read_state_labels threw, "" if none
    labels,      \* main: the map read_state_labels returned, if it returned
    reduced,     \* main: prune or merge_and_prune was called with labels
    \* ---- reduce.cpp, main ----
    m_pc,        \* position inside main
    argv,        \* the options getopt has not returned yet
    npos,        \* the positional arguments behind the options
    argc,        \* main: argc
    opt_cnt,     \* main: int opt_cnt
    eps,         \* main: float eps, in hundredths
    pct,         \* main: float pct, in hundredths
    red_type,    \* main: string red_type
    freq_opt,    \* main: bool freq_opt
    out_file,    \* the file at the output path: untouched, truncated (created empty), written
    reduce_call, \* the call of prune / merge_and_prune main made, if any
    exit_code,   \* the exit status of main
    \* ---- par_test.cpp, main ----
    e_pc,        \* position inside main
    iter,        \* int iter
    threshold,   \* float threshold, in thousandths
    aggr,        \* ErrorStats aggr
    wrong_acceptances, \* size_t wrong_acceptances, as 16-bit limbs
    pe,          \* float pe: sign, numerator (a size_t) and denominator
    row          \* whether the row of this threshold was written to cout

pvars == <<frame, pc, offset, ether_type, l4_proto, payload, count, func_call, oob>>
lvars == <<nfa, state_freq, total, seen_in, last_visits>>
rvars == <<rl_pc, buf, ret, rl_error, labels, reduced>>
mvars == <<m_pc, argv, npos, argc, opt_cnt, eps, pct, red_type, freq_opt, out_file,
           reduce_call, exit_code>>
evars == <<e_pc, iter, threshold, aggr, wrong_acceptances, pe, row>>

vars == <<pvars, lvars, rvars, mvars, evars>>

---------------------------------------------------------------------------
(* Bounds of the model *)

\* largest captured length of a generated frame
MaxCap == 104
\* number of encapsulating headers (IP-in-IP, IPv6-in-IPv6, fragment) in a generated frame
MaxNest == 1
\* the count argument of process_payload
MaxCount == 1
\* bytes of memory behind the captured bytes that can be read without a fault
MaxOverread == 16
\* states of the automaton in frequency mode
MaxStates == 2
\* payloads the frequency pass replays
MaxPayloads == 3
\* visitor calls parse_word makes for one payload
MaxVisits == 2
\* characters in one line of the label file
MaxLineLen == 4
\* options on the command line of reduce
MaxOpts == 2
\* payloads in one test capture of the evaluation sweep
MaxFilePayloads == 1

---------------------------------------------------------------------------
(* Constants of <net/ethernet.h>, <netinet/in.h> and the header sizes *)

ETHERTYPE_IP == 2048
ETHERTYPE_IPV6 == 34525
ETHERTYPE_VLAN == 33024
ETHERTYPE_ARP == 2054
IPPROTO_ICMP == 1
IPPROTO_IPIP == 4
IPPROTO_TCP == 6
IPPROTO_UDP == 17
IPPROTO_IPV6 == 41
IPPROTO_FRAGMENT == 44
IPPROTO_ESP == 50
IPPROTO_ICMPV6 == 58
\* a protocol number get_payload has no branch for (unassigned)
IPPROTO_OTHER == 99

SizeofEtherHeader == 14
SizeofVlanEthhdr == 18
SizeofIp == 20
SizeofIp6Hdr == 40
SizeofUdphdr == 8
SizeofIcmphdr == 8
SizeofIcmp6Hdr == 8
SizeofIp6Frag == 8
SizeofEsp == 8

\* byte offsets of the fields get_payload decodes, inside their headers
OffEtherType == 12
OffVlanEtherType == 16
OffIpP == 9
OffIp6Nxt == 6
OffThOff == 12
OffIp6fNxt == 0

---------------------------------------------------------------------------
(* Frames: the bytes a capture holds.  A frame is described by its header  *)
(* chain as sent; only the bytes get_payload decodes are given values, all *)
(* other bytes are 0.  Only the first caplen bytes were captured.          *)

Encapsulating == {IPPROTO_IPIP, IPPROTO_IPV6, IPPROTO_FRAGMENT}
Terminal == {IPPROTO_TCP, IPPROTO_UDP, IPPROTO_ESP, IPPROTO_ICMP,
             IPPROTO_ICMPV6, IPPROTO_OTHER}
\* values of the 4-bit TCP data-offset field used in generated frames
DataOffsets == {0, 5, 15}

RECURSIVE Chains(_)
\* header chains after the network layer: n encapsulating headers, then a terminal one
Chains(n) ==
    IF n = 0 THEN {<<t>> : t \in Terminal}
    ELSE Chains(n - 1) \cup
         {<<e>> \o c : e \in Encapsulating, c \in {x \in Chains(n - 1) : Len(x) = n}}

FrameDescs ==
    {[vlan |-> v, l3 |-> "other", protos |-> <<>>, d |-> 0] : v \in BOOLEAN}
    \cup
    {[vlan |-> v, l3 |-> n, protos |-> c, d |-> d] :
        v \in BOOLEAN, n \in {"ip", "ip6"}, c \in Chains(MaxNest), d \in DataOffsets}

WellFormed(f) ==
    \* the data offset is only a field of frames that end in a TCP header
    f.protos # <<>> /\ f.protos[Len(f.protos)] # IPPROTO_TCP => f.d = 0

EthLen(f) == IF f.vlan THEN SizeofVlanEthhdr ELSE SizeofEtherHeader

L3EtherType(f) ==
    CASE f.l3 = "ip" -> ETHERTYPE_IP
      [] f.l3 = "ip6" -> ETHERTYPE_IPV6
      [] OTHER -> ETHERTYPE_ARP

L3Len(f) == IF f.l3 = "ip" THEN SizeofIp ELSE SizeofIp6Hdr

Hi(w) == w \div 256
Lo(w) == w % 256

RECURSIVE ChainFields(_, _, _)
\* <<position, byte>> of the decoded fields of the headers protos, the first at o
ChainFields(protos, o, d) ==
    IF protos = <<>> THEN {}
    ELSE LET p == Head(protos)
             rest == Tail(protos)
             nxt == IF rest = <<>> THEN 0 ELSE Head(rest)
         IN  CASE p = IPPROTO_TCP -> {<<o + OffThOff, d * 16>>}
               [] p = IPPROTO_IPIP ->
                    {<<o + OffIpP, nxt>>} \cup ChainFields(rest, o + SizeofIp, d)
               [] p = IPPROTO_IPV6 ->
                    {<<o + OffIp6Nxt, nxt>>} \cup ChainFields(rest, o + SizeofIp6Hdr, d)
               [] p = IPPROTO_FRAGMENT ->
                    {<<o + OffIp6fNxt, nxt>>} \cup ChainFields(rest, o + SizeofIp6Frag, d)
               [] OTHER -> {}

WireFields(f) ==
    LET outer == IF f.vlan THEN ETHERTYPE_VLAN ELSE L3EtherType(f)
        eth == {<<OffEtherType, Hi(outer)>>, <<OffEtherType + 1, Lo(outer)>>}
        tag == IF f.vlan
               THEN {<<OffVlanEtherType, Hi(L3EtherType(f))>>,
                     <<OffVlanEtherType + 1, Lo(L3EtherType(f))>>}
               ELSE {}
        net == IF f.l3 = "ip" THEN {<<EthLen(f) + OffIpP, Head(f.protos)>>}
               ELSE IF f.l3 = "ip6" THEN {<<EthLen(f) + OffIp6Nxt, Head(f.protos)>>}
               ELSE {}
        rest == IF f.l3 = "other" THEN {}
                ELSE ChainFields(f.protos, EthLen(f) + L3Len(f), f.d)
    IN  eth \cup tag \cup net \cup rest

\* the byte of the frame at position p
WireByte(f, p) ==
    LET hit == {w \in WireFields(f) : w[1] = p}
    IN  IF hit = {} THEN 0 ELSE (CHOOSE w \in hit : TRUE)[2]

\* Bytes that memory behind the captured bytes may hold, per decoded field:
\* one value for every case the decoding distinguishes.
JunkEtherBytes == {0, 6, 8, 129, 134, 221}
JunkProtoBytes == {IPPROTO_ICMP, IPPROTO_IPIP, IPPROTO_TCP, IPPROTO_UDP, IPPROTO_IPV6,
                   IPPROTO_FRAGMENT, IPPROTO_ESP, IPPROTO_ICMPV6, IPPROTO_OTHER}
JunkThOffBytes == {0, 80, 240}

\* packet[p] can be read without a fault: p lies in the captured bytes or in
\* the MaxOverread bytes of memory behind them
Readable(p) == p < frame.caplen + MaxOverread

\* the values a read of packet[p] can produce: the captured byte, or whatever
\* lies behind the captured bytes
ReadByte(p, junk) == IF p < frame.caplen THEN {WireByte(frame, p)} ELSE junk

ntohs(b0, b1) == b0 * 256 + b1

---------------------------------------------------------------------------
(* pcapreader::process_payload and get_payload *)

NotInvoked == [invoked |-> FALSE, len |-> 0]

NoFrame == [vlan |-> FALSE, l3 |-> "other", protos |-> <<>>, d |-> 0, caplen |-> 0]

IdlePayload ==
    /\ frame = NoFrame
    /\ pc = "idle"
    /\ offset = 0
    /\ ether_type = 0
    /\ l4_proto = 0
    /\ payload = 0
    /\ count = 0
    /\ func_call = NotInvoked
    /\ oob = FALSE

InitPayload ==
    /\ frame = NoFrame
    /\ pc = "next"
    /\ offset = 0
    /\ ether_type = 0
    /\ l4_proto = 0
    /\ payload = 0
    /\ count = MaxCount
    /\ func_call = NotInvoked
    /\ oob = FALSE

\* while (pcap_next_ex(pcap, &header, &packet) == 1 && count): the next frame
NextFrame ==
    /\ pc = "next"
    /\ count > 0
    /\ \E f \in FrameDescs, cl \in 0..MaxCap :
          /\ WellFormed(f)
          /\ frame' = [vlan |-> f.vlan, l3 |-> f.l3, protos |-> f.protos,
                       d |-> f.d, caplen |-> cl]
    /\ pc' = "ether"
    /\ func_call' = NotInvoked
    /\ UNCHANGED <<offset, ether_type, l4_proto, payload, count, oob>>
    /\ UNCHANGED <<lvars, rvars, mvars, evars>>

\* the loop ends: no further frame, or count reached 0; pcap_close
Close ==
    /\ pc = "next"
    /\ pc' = "closed"
    /\ UNCHANGED <<frame, offset, ether_type, l4_proto, payload, count, func_call, oob>>
    /\ UNCHANGED <<lvars, rvars, mvars, evars>>

\* a read behind the readable memory ends the process
Fault ==
    /\ pc' = "fault"
    /\ oob' = TRUE
    /\ UNCHANGED <<frame, offset, ether_type, l4_proto, payload, count, func_call>>

\* get_payload, the Ethernet header
GetPayloadEther ==
    /\ pc = "ether"
    /\ IF ~Readable(OffEtherType + 1)
       THEN Fault
       ELSE /\ \E b0 \in ReadByte(OffEtherType, JunkEtherBytes),
                  b1 \in ReadByte(OffEtherType + 1, JunkEtherBytes) :
                  ether_type' = ntohs(b0, b1)
            /\ offset' = SizeofEtherHeader
            /\ oob' = (OffEtherType + 2 > frame.caplen)
            /\ pc' = "vlan"
            /\ UNCHANGED <<frame, l4_proto, payload, count, func_call>>
    /\ UNCHANGED <<lvars, rvars, mvars, evars>>

\* get_payload, the VLAN tag
GetPayloadVlan ==
    /\ pc = "vlan"
    /\ IF ETHERTYPE_VLAN = ether_type
       THEN IF ~Readable(OffVlanEtherType + 1)
            THEN Fault
            ELSE /\ offset' = SizeofVlanEthhdr
                 /\ \E b0 \in ReadByte(OffVlanEtherType, JunkEtherBytes),
                       b1 \in ReadByte(OffVlanEtherType + 1, JunkEtherBytes) :
                       ether_type' = ntohs(b0, b1)
                 /\ oob' = (oob \/ OffVlanEtherType + 2 > frame.caplen)
                 /\ pc' = "l3"
                 /\ UNCHANGED <<frame, l4_proto, payload, count, func_call>>
       ELSE /\ pc' = "l3"
            /\ UNCHANGED <<frame, offset, ether_type, oob, l4_proto, payload, count,
                           func_call>>
    /\ UNCHANGED <<lvars, rvars, mvars, evars>>

\* get_payload skips a header of hdrlen bytes whose field at fieldoff names
\* the next protocol; get_payload goes on at nextpc
SkipHeader(fieldoff, hdrlen, nextpc) ==
    IF ~Readable(offset + fieldoff)
    THEN Fault
    ELSE /\ l4_proto' \in ReadByte(offset + fieldoff, JunkProtoBytes)
         /\ offset' = offset + hdrlen
         /\ oob' = (oob \/ offset + fieldoff + 1 > frame.caplen)
         /\ pc' = nextpc
         /\ UNCHANGED <<frame, ether_type, payload, count, func_call>>

\* get_payload skips a header of fixed length that ends the chain
SkipFixed(hdrlen) ==
    /\ offset' = offset + hdrlen
    /\ pc' = "check"
    /\ UNCHANGED <<frame, ether_type, l4_proto, payload, count, func_call, oob>>

\* return packet_end / return packet + header->caplen
ReturnEnd ==
    /\ payload' = frame.caplen
    /\ pc' = "deliver"
    /\ UNCHANGED <<frame, offset, ether_type, l4_proto, count, func_call, oob>>

\* get_payload, the network layer
GetPayloadL3 ==
    /\ pc = "l3"
    /\ IF ETHERTYPE_IP = ether_type
       THEN SkipHeader(OffIpP, SizeofIp, "loop")
       ELSE IF ETHERTYPE_IPV6 = ether_type
       THEN SkipHeader(OffIp6Nxt, SizeofIp6Hdr, "loop")
       ELSE ReturnEnd
    /\ UNCHANGED <<lvars, rvars, mvars, evars>>

\* get_payload, the TCP header
SkipTcp ==
    IF ~Readable(offset + OffThOff)
    THEN Fault
    ELSE /\ \E b \in ReadByte(offset + OffThOff, JunkThOffBytes) :
               offset' = offset + (b \div 16) * 4
         /\ oob' = (oob \/ offset + OffThOff + 1 > frame.caplen)
         /\ pc' = "check"
         /\ UNCHANGED <<frame, ether_type, l4_proto, payload, count, func_call>>

\* where get_payload goes on after an IPv6-in-IPv6 header: cond is not set
AfterIpv6InIpv6 == "check"

\* get_payload, one iteration of the do-while loop
GetPayloadLoop ==
    /\ pc = "loop"
    /\ CASE IPPROTO_TCP = l4_proto -> SkipTcp
         [] IPPROTO_UDP = l4_proto -> SkipFixed(SizeofUdphdr)
         [] IPPROTO_IPIP = l4_proto -> SkipHeader(OffIpP, SizeofIp, "loop")
         [] IPPROTO_ESP = l4_proto -> SkipFixed(SizeofEsp)
         [] IPPROTO_ICMP = l4_proto -> SkipFixed(SizeofIcmphdr)
         [] IPPROTO_ICMPV6 = l4_proto -> SkipFixed(SizeofIcmp6Hdr)
         [] IPPROTO_FRAGMENT = l4_proto -> SkipHeader(OffIp6fNxt, SizeofIp6Frag, "loop")
         [] IPPROTO_IPV6 = l4_proto -> SkipHeader(OffIp6Nxt, SizeofIp6Hdr, AfterIpv6InIpv6)
         [] OTHER -> ReturnEnd
    /\ UNCHANGED <<lvars, rvars, mvars, evars>>

\* a faulty variant: the offset is returned without the comparison with caplen
UncheckedOffset(off, caplen) == off

\* the offset get_payload returns after the loop, as payload - packet
CheckedOffset(off, caplen) == IF off > caplen THEN caplen ELSE off

\* get_payload, after the loop
GetPayloadCheck ==
    /\ pc = "check"
    /\ payload' = CheckedOffset(offset, frame.caplen)
    /\ pc' = "deliver"
    /\ UNCHANGED <<frame, offset, ether_type, l4_proto, count, func_call, oob>>
    /\ UNCHANGED <<lvars, rvars, mvars, evars>>

\* int len = header->caplen - (payload - packet)
PayloadLen == frame.caplen - payload

\* process_payload, the body of the loop after get_payload returned; the frame
\* and get_payload's locals end with the iteration
Deliver ==
    /\ pc = "deliver"
    /\ IF PayloadLen > 0
       THEN /\ count' = count - 1
            /\ func_call' = [invoked |-> TRUE, len |-> PayloadLen]
       ELSE UNCHANGED <<count, func_call>>
    /\ pc' = "next"
    /\ frame' = NoFrame
    /\ offset' = 0
    /\ ether_type' = 0
    /\ l4_proto' = 0
    /\ payload' = 0
    /\ oob' = FALSE
    /\ UNCHANGED <<lvars, rvars, mvars, evars>>

---------------------------------------------------------------------------
(* Properties of get_payload and process_payload *)

\* the frame's header chain as sent: Ethernet [+VLAN], network header l3, then protos
IsChain(l3, protos) == frame.l3 = l3 /\ frame.protos = protos

\* C1: for every frame, truncated or not, the pointer get_payload returns lies
\* in [packet, packet + caplen], so the length process_payload computes from
\* it is never negative.
C1_PayloadInsideCapture ==
    pc = "deliver" => /\ 0 <= payload
                      /\ payload <= frame.caplen
                      /\ PayloadLen >= 0

\* C1 witness: an Ethernet+IPv4+TCP frame cut inside the TCP header, behind the
\* data-offset byte: the accumulated offset passed caplen and get_payload
\* returned the end of the captured bytes.
C1_Witness ==
    /\ pc = "deliver"
    /\ IsChain("ip", <<IPPROTO_TCP>>)
    /\ ~oob
    /\ l4_proto = IPPROTO_TCP
    /\ offset > frame.caplen
    /\ payload = frame.caplen

\* C2: every header field get_payload decodes is read from bytes inside
\* [0, caplen) of the frame.
C2_ReadsInsideCapture == ~oob

\* C3: after an IPv6-in-IPv6 header the loop continues, so for a fully
\* captured Ethernet[+VLAN]+IPv6+IPv6+UDP frame the returned offset includes
\* the UDP header.
C3_Ipv6InIpv6Continues ==
    /\ pc = "deliver"
    /\ IsChain("ip6", <<IPPROTO_IPV6, IPPROTO_UDP>>)
    /\ frame.caplen >= EthLen(frame) + SizeofIp6Hdr + SizeofIp6Hdr + SizeofUdphdr
    => payload = EthLen(frame) + SizeofIp6Hdr + SizeofIp6Hdr + SizeofUdphdr

\* the frame is one whose extraction fails: its network layer is neither
\* IPv4 nor IPv6, its header chain ends in an unrecognized protocol number,
\* or the accumulated offset exceeds caplen
ExtractionFails ==
    \/ frame.l3 = "other"
    \/ frame.protos # <<>> /\ frame.protos[Len(frame.protos)] = IPPROTO_OTHER
    \/ offset > frame.caplen

\* C4: for a frame whose extraction fails get_payload returns the end of the
\* captured bytes, and process_payload neither invokes the callback nor
\* decrements count; the callback is only ever invoked with a length > 0.
C4_FailuresSkipped ==
    /\ [][pc = "deliver" /\ ExtractionFails
            => /\ payload = frame.caplen
               /\ count' = count
               /\ func_call' = func_call
               /\ ~func_call'.invoked]_vars
    /\ [](func_call.invoked => func_call.len > 0)

\* C5: for a frame Ethernet[+VLAN]+IPv4+TCP with data offset d and captured
\* length L, get_payload returns E + 20 + 4*d when that is at most L, and the
\* end of the captured bytes (a payload of length 0) otherwise.
C5_TcpPayloadOffset ==
    pc = "deliver" /\ IsChain("ip", <<IPPROTO_TCP>>)
    => LET want == EthLen(frame) + SizeofIp + 4 * frame.d
       IN  payload = IF want <= frame.caplen THEN want ELSE frame.caplen

NextPayload ==
    \/ NextFrame
    \/ Close
    \/ GetPayloadEther
    \/ GetPayloadVlan
    \/ GetPayloadL3
    \/ GetPayloadLoop
    \/ GetPayloadCheck
    \/ Deliver

---------------------------------------------------------------------------
(* label_states and the frequency pass of main (reduce.cpp) *)

States == 0..(MaxStates - 1)

RECURSIVE SeqsUpTo(_, _)
\* the sequences over S of length at most n
SeqsUpTo(S, n) ==
    IF n = 0 THEN {<<>>}
    ELSE LET shorter == SeqsUpTo(S, n - 1)
         IN  shorter \cup {Append(q, x) : q \in {r \in shorter : Len(r) = n - 1}, x \in S}

\* nfa.parse_word(payload, len, visitor): the states it hands to the visitor,
\* in order; a state may be handed over several times, or never
ParseWordVisits == SeqsUpTo(States, MaxVisits)

RECURSIVE CountVisits(_, _)
\* a faulty variant: the visitor counts the visits instead of marking the state
CountVisits(bm, visits) ==
    IF visits = <<>> THEN bm
    ELSE CountVisits([bm EXCEPT ![Head(visits)] = @ + 1], Tail(visits))

RECURSIVE MarkVisited(_, _)
\* the visitor [&bm](State s){ bm[s] = 1; } applied to each reported state
MarkVisited(bm, visits) ==
    IF visits = <<>> THEN bm
    ELSE MarkVisited([bm EXCEPT ![Head(visits)] = 1], Tail(visits))

\* label_states: state_freq after one payload whose replay reported visits
LabelStates(freq, visits) ==
    LET bm == MarkVisited([i \in 0..(nfa.state_count - 1) |-> 0], visits)
        added == [i \in DOMAIN freq |-> freq[i] + bm[i]]
    IN  [added EXCEPT ![nfa.initial] = @ + 1]

IdleLabel ==
    /\ nfa = [state_count |-> 0, initial |-> 0]
    /\ state_freq = <<>>
    /\ total = 0
    /\ seen_in = <<>>
    /\ last_visits = <<>>

\* size_t total = 0; vector<size_t> state_freq(nfa.state_count());
InitLabel ==
    /\ nfa \in {[state_count |-> MaxStates, initial |-> i] : i \in States}
    /\ state_freq = [i \in States |-> 0]
    /\ total = 0
    /\ seen_in = [i \in States |-> 0]
    /\ last_visits = <<>>

\* the callback process_payload invokes in frequency mode, for one payload
FreqCallback ==
    /\ total < MaxPayloads
    /\ \E visits \in ParseWordVisits :
          /\ total' = total + 1
          /\ state_freq' = LabelStates(state_freq, visits)
          /\ seen_in' = [i \in States |->
                            seen_in[i] + IF \E k \in 1..Len(visits) : visits[k] = i
                                         THEN 1 ELSE 0]
          /\ last_visits' = visits
    /\ UNCHANGED nfa
    /\ UNCHANGED <<pvars, rvars, mvars, evars>>

NextLabel ==
    \/ FreqCallback

\* C6: after any sequence of payloads the counter of a non-initial state is the
\* number of payloads whose replay reported it at least once, the counter of
\* the initial state is that number plus the number of payloads; no counter
\* ever decreases and the automaton is not changed.
C6_FrequencyCounts ==
    /\ [](\A i \in DOMAIN state_freq :
            state_freq[i] = seen_in[i] + IF i = nfa.initial THEN total ELSE 0)
    /\ [][/\ \A i \in DOMAIN state_freq : state_freq'[i] >= state_freq[i]
          /\ nfa' = nfa]_vars

\* C6 witness: the last of several payloads reported a non-initial state
\* twice, and that state's counter is 1.
C6_Witness ==
    /\ total >= 2
    /\ \E i \in DOMAIN state_freq :
          /\ i # nfa.initial
          /\ Cardinality({k \in 1..Len(last_visits) : last_visits[k] = i}) >= 2
          /\ state_freq[i] = 1
          /\ state_freq[nfa.initial] >= total

---------------------------------------------------------------------------
(* read_state_labels and its call in main (reduce.cpp) *)

\* the characters of generated label files: digits, blank, comment sign, other
Chars == {"0", "1", " ", "#", "x"}
Digits == {"0", "1", "2", "3", "4", "5", "6", "7", "8", "9"}

\* the lines getline can read
Lines == SeqsUpTo(Chars, MaxLineLen)

\* nfa.is_state(s): the states of the loaded automaton
NfaStateIds == {0, 1}
is_state(s) == s \in NfaStateIds

\* buf.find("#"): the index of the first '#', Len(b) + 1 standing for npos
FindHash(b) ==
    IF \E i \in 1..Len(b) : b[i] = "#"
    THEN CHOOSE i \in 1..Len(b) : b[i] = "#" /\ \A k \in 1..(i - 1) : b[k] # "#"
    ELSE Len(b) + 1

\* a faulty variant: the comment is not removed
KeepComment(b) == b

\* buf.substr(0, buf.find("#"))
StripComment(b) == SubSeq(b, 1, FindHash(b) - 1)

RECURSIVE SkipWs(_)
\* operator>> skips leading whitespace
SkipWs(t) == IF t # <<>> /\ Head(t) = " " THEN SkipWs(Tail(t)) ELSE t

RECURSIVE DigitPrefix(_)
\* the longest prefix of t made of digits
DigitPrefix(t) ==
    IF t # <<>> /\ Head(t) \in Digits THEN <<Head(t)>> \o DigitPrefix(Tail(t)) ELSE <<>>

DigitVal(c) ==
    CASE c = "0" -> 0 [] c = "1" -> 1 [] c = "2" -> 2 [] c = "3" -> 3 [] c = "4" -> 4
      [] c = "5" -> 5 [] c = "6" -> 6 [] c = "7" -> 7 [] c = "8" -> 8 [] c = "9" -> 9

RECURSIVE DecVal(_)
\* the number a string of decimal digits denotes
DecVal(ds) ==
    IF ds = <<>> THEN 0 ELSE DecVal(SubSeq(ds, 1, Len(ds) - 1)) * 10 + DigitVal(ds[Len(ds)])

\* iss >> x for an unsigned x: the stream after the extraction, and x
Extract(stream) ==
    LET t == SkipWs(stream.rest)
        ds == DigitPrefix(t)
    IN  IF ~stream.good \/ ds = <<>>
        THEN [good |-> FALSE, val |-> 0, rest |-> t]
        ELSE [good |-> TRUE, val |-> DecVal(ds), rest |-> SubSeq(t, Len(ds) + 1, Len(t))]

NoLabels == [returned |-> FALSE, map |-> <<>>]

IdleLabels ==
    /\ rl_pc = "idle"
    /\ buf = <<>>
    /\ ret = <<>>
    /\ rl_error = ""
    /\ labels = NoLabels
    /\ reduced = FALSE

\* main reaches auto labels = read_state_labels(nfa, pcap)
InitLabels ==
    /\ rl_pc = "open"
    /\ buf = <<>>
    /\ ret = <<>>
    /\ rl_error = ""
    /\ labels = NoLabels
    /\ reduced = FALSE

\* throw runtime_error(what)
RlThrow(what) ==
    /\ rl_pc' = "thrown"
    /\ rl_error' = what
    /\ UNCHANGED <<ret, labels, reduced>>

\* ifstream in{fname}: the file opens
RlOpen ==
    /\ rl_pc = "open"
    /\ rl_pc' = "getline"
    /\ UNCHANGED <<buf, ret, rl_error, labels, reduced>>
    /\ UNCHANGED <<pvars, lvars, mvars, evars>>

\* ifstream in{fname}: the file does not open
RlOpenFails ==
    /\ rl_pc = "open"
    /\ RlThrow("error loading NFA")
    /\ UNCHANGED buf
    /\ UNCHANGED <<pvars, lvars, mvars, evars>>

\* while (getline(in, buf)): a line is read
RlGetline ==
    /\ rl_pc = "getline"
    /\ buf' \in Lines
    /\ rl_pc' = "line"
    /\ UNCHANGED <<ret, rl_error, labels, reduced>>
    /\ UNCHANGED <<pvars, lvars, mvars, evars>>

\* the body of the loop, for the line in buf; buf is dead afterwards
RlLine ==
    /\ rl_pc = "line"
    /\ buf' = <<>>
    /\ LET b == StripComment(buf)
           s == Extract([good |-> TRUE, rest |-> b])
           l == Extract(s)
       IN  IF b = <<>>
           THEN /\ rl_pc' = "getline"
                /\ UNCHANGED <<ret, rl_error, labels, reduced>>
           ELSE IF ~l.good
           THEN RlThrow("invalid state labels syntax")
           ELSE IF ~is_state(s.val)
           THEN RlThrow("invalid NFA state")
           ELSE /\ ret' = (s.val :> l.val) @@ ret
                /\ rl_pc' = "getline"
                /\ UNCHANGED <<rl_error, labels, reduced>>
    /\ UNCHANGED <<pvars, lvars, mvars, evars>>

\* getline fails at the end of the file: in.close(); return ret
RlReturn ==
    /\ rl_pc = "getline"
    /\ labels' = [returned |-> TRUE, map |-> ret]
    /\ rl_pc' = "returned"
    /\ UNCHANGED <<buf, ret, rl_error, reduced>>
    /\ UNCHANGED <<pvars, lvars, mvars, evars>>

\* main: the reduction is called with the labels
MainReduceLabels ==
    /\ rl_pc = "returned"
    /\ reduced' = TRUE
    /\ rl_pc' = "done"
    /\ UNCHANGED <<buf, ret, rl_error, labels>>
    /\ UNCHANGED <<pvars, lvars, mvars, evars>>

\* main: catch (exception &e) { ...; return 1; }
MainCatchLabels ==
    /\ rl_pc = "thrown"
    /\ rl_pc' = "failed"
    /\ UNCHANGED <<buf, ret, rl_error, labels, reduced>>
    /\ UNCHANGED <<pvars, lvars, mvars, evars>>

NextLabels ==
    \/ RlOpen
    \/ RlOpenFails
    \/ RlGetline
    \/ RlLine
    \/ RlReturn
    \/ MainReduceLabels
    \/ MainCatchLabels

(* What a line of the label file says, stated on the line's text *)

\* the line without its comment: the text before the first '#'
BeforeComment(line) ==
    LET n == CHOOSE n \in 0..Len(line) :
                 /\ \A i \in 1..n : line[i] # "#"
                 /\ n = Len(line) \/ line[n + 1] = "#"
    IN  SubSeq(line, 1, n)

AllIn(t, a, b, S) == \A i \in a..b : t[i] \in S

\* t is blanks, a number in t[a..b], at least one blank, a number in t[c..e],
\* and then nothing or something that is no digit
Fields(t) ==
    {f \in (1..Len(t)) \X (1..Len(t)) \X (1..Len(t)) \X (1..Len(t)) :
        /\ f[1] <= f[2] /\ f[2] + 1 < f[3] /\ f[3] <= f[4]
        /\ AllIn(t, 1, f[1] - 1, {" "})
        /\ AllIn(t, f[1], f[2], Digits)
        /\ AllIn(t, f[2] + 1, f[3] - 1, {" "})
        /\ AllIn(t, f[3], f[4], Digits)
        /\ f[4] = Len(t) \/ t[f[4] + 1] \notin Digits}

---------------------------------------------------------------------------
(* main of the reduce command (reduce.cpp); floats are in hundredths *)

DefaultEps == -100
DefaultPct == -100
CheckFloatMax == 100
CheckFloatMin == 0
MinPositional == 2

\* the arguments given to -e and -p: numbers, or text stod cannot convert
OptNumbers == {-50, 0, 50, 100, 150}
NoArg == [num |-> FALSE, val |-> 0, str |-> ""]
Options ==
    {[opt |-> o, arg |-> NoArg] : o \in {"h", "f", "?"}}
    \cup {[opt |-> "o", arg |-> [num |-> FALSE, val |-> 0, str |-> "out.fa"]]}
    \cup {[opt |-> "t", arg |-> [num |-> FALSE, val |-> 0, str |-> t]] :
             t \in {"prune", "merge", "other"}}
    \cup {[opt |-> o, arg |-> [num |-> TRUE, val |-> v, str |-> ""]] :
             o \in {"e", "p"}, v \in OptNumbers}
    \cup {[opt |-> o, arg |-> [num |-> FALSE, val |-> 0, str |-> "abc"]] : o \in {"e", "p"}}

\* the words of argv an option takes
Words(o) == IF o.opt \in {"o", "e", "p", "t"} THEN 2 ELSE 1

RECURSIVE WordCount(_)
WordCount(opts) == IF opts = <<>> THEN 0 ELSE Words(Head(opts)) + WordCount(Tail(opts))

\* check_float(x): x passes (no exception)
CheckFloat(x) == ~(x > CheckFloatMax \/ x < CheckFloatMin)

NoCall == [called |-> FALSE, fn |-> "", pct |-> 0, eps |-> 0]

IdleMain ==
    /\ m_pc = "idle"
    /\ argv = <<>>
    /\ npos = 0
    /\ argc = 0
    /\ opt_cnt = 0
    /\ eps = 0
    /\ pct = 0
    /\ red_type = ""
    /\ freq_opt = FALSE
    /\ out_file = "untouched"
    /\ reduce_call = NoCall
    /\ exit_code = 0

InitMain ==
    /\ m_pc = "start"
    /\ argv \in SeqsUpTo(Options, MaxOpts)
    /\ npos \in 0..MinPositional
    /\ argc = 1 + WordCount(argv) + npos
    /\ opt_cnt = 1
    /\ eps = DefaultEps
    /\ pct = DefaultPct
    /\ red_type = "prune"
    /\ freq_opt = FALSE
    /\ out_file = "untouched"
    /\ reduce_call = NoCall
    /\ exit_code = 0

\* return code from main
MainReturn(code) ==
    /\ m_pc' = "exit"
    /\ exit_code' = code

\* an exception reaches catch (exception &e): the message is written, return 1
MainThrow == MainReturn(1)

\* if (argc < 2) { cerr << helpstr; return 1; }
MainStart ==
    /\ m_pc = "start"
    /\ IF argc < 2 THEN MainReturn(1) ELSE m_pc' = "getopt" /\ UNCHANGED exit_code
    /\ UNCHANGED <<argv, npos, argc, opt_cnt, eps, pct, red_type, freq_opt, out_file,
                   reduce_call>>
    /\ UNCHANGED <<pvars, lvars, rvars, evars>>

\* one iteration of while ((c = getopt(...)) != -1), or its end
MainGetopt ==
    /\ m_pc = "getopt"
    /\ IF argv = <<>>
       THEN /\ m_pc' = "positional"
            /\ UNCHANGED <<argv, opt_cnt, eps, pct, red_type, freq_opt, exit_code>>
       ELSE LET o == Head(argv)
            IN  /\ argv' = Tail(argv)
                /\ opt_cnt' = opt_cnt + Words(o)
                /\ CASE o.opt = "h" ->
                          MainReturn(0) /\ UNCHANGED <<eps, pct, red_type, freq_opt>>
                     [] o.opt = "o" ->
                          UNCHANGED <<m_pc, exit_code, eps, pct, red_type, freq_opt>>
                     [] o.opt = "f" ->
                          freq_opt' = TRUE /\ UNCHANGED <<m_pc, exit_code, eps, pct, red_type>>
                     [] o.opt = "e" ->
                          IF ~o.arg.num
                          THEN MainThrow /\ UNCHANGED <<eps, pct, red_type, freq_opt>>
                          ELSE /\ eps' = o.arg.val
                               /\ IF CheckFloat(o.arg.val)
                                  THEN UNCHANGED <<m_pc, exit_code>>
                                  ELSE MainThrow
                               /\ UNCHANGED <<pct, red_type, freq_opt>>
                     [] o.opt = "p" ->
                          IF ~o.arg.num
                          THEN MainThrow /\ UNCHANGED <<eps, pct, red_type, freq_opt>>
                          ELSE /\ pct' = o.arg.val
                               /\ IF CheckFloat(o.arg.val)
                                  THEN UNCHANGED <<m_pc, exit_code>>
                                  ELSE MainThrow
                               /\ UNCHANGED <<eps, red_type, freq_opt>>
                     [] o.opt = "t" ->
                          red_type' = o.arg.str
                          /\ UNCHANGED <<m_pc, exit_code, eps, pct, freq_opt>>
                     [] OTHER ->
                          MainReturn(1) /\ UNCHANGED <<eps, pct, red_type, freq_opt>>
    /\ UNCHANGED <<npos, argc, out_file, reduce_call>>
    /\ UNCHANGED <<pvars, lvars, rvars, evars>>

\* if (argc - opt_cnt < 2) throw runtime_error("invalid positional arguments")
MainPositional ==
    /\ m_pc = "positional"
    /\ IF argc - opt_cnt < MinPositional
       THEN MainThrow
       ELSE m_pc' = "read_nfa" /\ UNCHANGED exit_code
    /\ UNCHANGED <<argv, npos, argc, opt_cnt, eps, pct, red_type, freq_opt, out_file,
                   reduce_call>>
    /\ UNCHANGED <<pvars, lvars, rvars, evars>>

\* nfa.read_from_file(nfa_str.c_str()): the automaton loads, or it throws
MainReadNfa ==
    /\ m_pc = "read_nfa"
    /\ \E loads \in BOOLEAN :
          IF loads THEN m_pc' = "open_out" /\ UNCHANGED exit_code ELSE MainThrow
    /\ UNCHANGED <<argv, npos, argc, opt_cnt, eps, pct, red_type, freq_opt, out_file,
                   reduce_call>>
    /\ UNCHANGED <<pvars, lvars, rvars, evars>>

\* ofstream out{outfile}: the file is created or truncated, or cannot be opened
MainOpenOut ==
    /\ m_pc = "open_out"
    /\ \E opens \in BOOLEAN :
          IF opens
          THEN /\ out_file' = "truncated"
               /\ m_pc' = IF freq_opt THEN "freq" ELSE "labels"
               /\ UNCHANGED exit_code
          ELSE MainThrow /\ UNCHANGED out_file
    /\ UNCHANGED <<argv, npos, argc, opt_cnt, eps, pct, red_type, freq_opt, reduce_call>>
    /\ UNCHANGED <<pvars, lvars, rvars, evars>>

\* if (freq_opt): process_payload opens the capture and the frequencies are
\* written, or the capture cannot be opened
MainFreq ==
    /\ m_pc = "freq"
    /\ \E opens \in BOOLEAN :
          IF opens
          THEN out_file' = "written" /\ MainReturn(0)
          ELSE MainThrow /\ UNCHANGED out_file
    /\ UNCHANGED <<argv, npos, argc, opt_cnt, eps, pct, red_type, freq_opt, reduce_call>>
    /\ UNCHANGED <<pvars, lvars, rvars, evars>>

\* auto labels = read_state_labels(nfa, pcap): it returns, or it throws
MainReadLabels ==
    /\ m_pc = "labels"
    /\ \E returns \in BOOLEAN :
          IF returns THEN m_pc' = "reduce" /\ UNCHANGED exit_code ELSE MainThrow
    /\ UNCHANGED <<argv, npos, argc, opt_cnt, eps, pct, red_type, freq_opt, out_file,
                   reduce_call>>
    /\ UNCHANGED <<pvars, lvars, rvars, evars>>

\* the reduction chosen by red_type: it returns, or it throws
MainReduce ==
    /\ m_pc = "reduce"
    /\ IF red_type \in {"prune", "merge"}
       THEN /\ reduce_call' = [called |-> TRUE, fn |-> red_type, pct |-> pct,
                               eps |-> IF red_type = "prune" THEN eps ELSE 0]
            /\ \E returns \in BOOLEAN :
                  IF returns THEN m_pc' = "print" /\ UNCHANGED exit_code ELSE MainThrow
       ELSE MainThrow /\ UNCHANGED reduce_call
    /\ UNCHANGED <<argv, npos, argc, opt_cnt, eps, pct, red_type, freq_opt, out_file>>
    /\ UNCHANGED <<pvars, lvars, rvars, evars>>

\* nfa.print(out); out.close(); return 0
MainPrint ==
    /\ m_pc = "print"
    /\ out_file' = "written"
    /\ MainReturn(0)
    /\ UNCHANGED <<argv, npos, argc, opt_cnt, eps, pct, red_type, freq_opt, reduce_call>>
    /\ UNCHANGED <<pvars, lvars, rvars, evars>>

NextMain ==
    \/ MainStart
    \/ MainGetopt
    \/ MainPositional
    \/ MainReadNfa
    \/ MainOpenOut
    \/ MainFreq
    \/ MainReadLabels
    \/ MainReduce
    \/ MainPrint

\* C8: on every run of reduce that ends in a failure the output path has not
\* been created, truncated or written.
C8_NoOutputOnFailure ==
    m_pc = "exit" /\ exit_code # 0 => out_file = "untouched"

\* x lies strictly between 0 and 1 (in hundredths)
StrictlyInside(x) == 0 < x /\ x < 100

\* C9: reduce calls prune or merge_and_prune only with pct strictly between 0
\* and 1 (and, for prune, eps strictly between 0 and 1); with any other -p / -e
\* options, or without them, no reduction is performed.
C9_ReductionArgumentsInRange ==
    reduce_call.called =>
       /\ StrictlyInside(reduce_call.pct)
       /\ reduce_call.fn = "prune" => StrictlyInside(reduce_call.eps)

---------------------------------------------------------------------------
(* main of par_test (par_test.cpp): the evaluation sweep *)

\* size_t is 64 bits wide: NLimbs limbs of 16 bits, the most significant first
NLimbs == 4
LimbBase == 2 ^ 16
\* the test captures, the iterations and the thresholds of the sweep
NTestFiles == 3
Iterations == 11
FirstThreshold == 975
ThresholdStep == 5
ThresholdEnd == 1000

ToSizeT(n) == [i \in 1..NLimbs |-> IF i = NLimbs THEN n ELSE 0]

RECURSIVE SubLimbs(_, _, _, _)
\* limbs 1..i of a - b - borrow, modulo LimbBase ^ i
SubLimbs(a, b, i, borrow) ==
    IF i = 0 THEN <<>>
    ELSE LET d == a[i] - b[i] - borrow
         IN  IF d < 0 THEN Append(SubLimbs(a, b, i - 1, 1), d + LimbBase)
                      ELSE Append(SubLimbs(a, b, i - 1, 0), d)

\* a - b on size_t
SubSizeT(a, b) == SubLimbs(a, b, NLimbs, 0)

\* the ErrorStats of one test capture, from the number of its payloads that
\* both automata accept, only the target, only the reduced one, and neither
FileStats ==
    LET N == 0..MaxFilePayloads
        verdicts == {v \in N \X N \X N \X N : v[1] + v[2] + v[3] + v[4] <= MaxFilePayloads}
    IN  {[total |-> v[1] + v[2] + v[3] + v[4],
          accepted_target |-> v[1] + v[2],
          accepted_reduced |-> v[1] + v[3],
          wrongly_classified |-> v[2] + v[3],
          correctly_classified |-> v[1] + v[4]] : v \in verdicts}

ZeroStats == [total |-> 0, accepted_target |-> 0, accepted_reduced |-> 0,
              wrongly_classified |-> 0, correctly_classified |-> 0]

\* ErrorStats::aggregate: the field-wise sum
Aggregate(a, b) ==
    [total |-> a.total + b.total,
     accepted_target |-> a.accepted_target + b.accepted_target,
     accepted_reduced |-> a.accepted_reduced + b.accepted_reduced,
     wrongly_classified |-> a.wrongly_classified + b.wrongly_classified,
     correctly_classified |-> a.correctly_classified + b.correctly_classified]

RECURSIVE AggregateAll(_, _)
AggregateAll(results, n) ==
    IF n = 0 THEN ZeroStats ELSE Aggregate(AggregateAll(results, n - 1), results[n])

NoPe == [neg |-> FALSE, num |-> ToSizeT(0), den |-> 0]

IdleEval ==
    /\ e_pc = "idle"
    /\ iter = 0
    /\ threshold = 0
    /\ aggr = ZeroStats
    /\ wrong_acceptances = ToSizeT(0)
    /\ pe = NoPe
    /\ row = FALSE

InitEval ==
    /\ e_pc = "evaluate"
    /\ iter = 0
    /\ threshold = FirstThreshold
    /\ aggr = ZeroStats
    /\ wrong_acceptances = ToSizeT(0)
    /\ pe = NoPe
    /\ row = FALSE

\* reduce, build, NfaError::start and the aggregation of its results; the
\* metrics of the iteration before are out of scope
EvalAggregate ==
    /\ e_pc = "evaluate"
    /\ \E results \in [1..NTestFiles -> FileStats] :
          aggr' = AggregateAll(results, NTestFiles)
    /\ e_pc' = "metrics"
    /\ row' = FALSE
    /\ wrong_acceptances' = ToSizeT(0)
    /\ pe' = NoPe
    /\ UNCHANGED <<iter, threshold>>
    /\ UNCHANGED <<pvars, lvars, rvars, mvars>>

\* the metrics and the row written to cout, then the step of the two loops
EvalMetrics ==
    /\ e_pc = "metrics"
    /\ wrong_acceptances' =
          SubSizeT(ToSizeT(aggr.accepted_reduced), ToSizeT(aggr.accepted_target))
    /\ pe' = [neg |-> FALSE, num |-> wrong_acceptances', den |-> aggr.total]
    /\ row' = TRUE
    /\ IF iter = 0 \/ threshold + ThresholdStep >= ThresholdEnd
       THEN /\ iter' = iter + 1
            /\ threshold' = FirstThreshold
            /\ e_pc' = IF iter + 1 < Iterations THEN "evaluate" ELSE "done"
       ELSE /\ threshold' = threshold + ThresholdStep
            /\ e_pc' = "evaluate"
            /\ UNCHANGED iter
    /\ UNCHANGED aggr
    /\ UNCHANGED <<pvars, lvars, rvars, mvars>>

NextEval ==
    \/ EvalAggregate
    \/ EvalMetrics

RECURSIVE LeqLimbs(_, _, _)
\* a <= b on size_t, compared from limb i on
LeqLimbs(a, b, i) ==
    IF i > NLimbs THEN TRUE
    ELSE IF a[i] # b[i] THEN a[i] < b[i]
    ELSE LeqLimbs(a, b, i + 1)

\* C10: for every aggregate with total > 0 the emitted pe is the signed
\* difference accepted_reduced - accepted_target divided by total, of
\* magnitude at most 1, also when accepted_reduced < accepted_target.
C10_SignedErrorProxy ==
    row /\ aggr.total > 0 =>
       LET diff == aggr.accepted_reduced - aggr.accepted_target
       IN  /\ pe.den = aggr.total
           /\ pe.neg = (diff < 0)
           /\ pe.num = ToSizeT(IF diff < 0 THEN 0 - diff ELSE diff)
           /\ LeqLimbs(pe.num, ToSizeT(pe.den), 1)

---------------------------------------------------------------------------
(* The specifications: one per subsystem, the others idle *)

InitSpecPayload == InitPayload /\ IdleLabel /\ IdleLabels /\ IdleMain /\ IdleEval
SpecPayload == InitSpecPayload /\ [][NextPayload]_vars

InitSpecLabel == InitLabel /\ IdlePayload /\ IdleLabels /\ IdleMain /\ IdleEval
SpecLabel == InitSpecLabel /\ [][NextLabel]_vars

InitSpecLabels == InitLabels /\ IdlePayload /\ IdleLabel /\ IdleMain /\ IdleEval
SpecLabels == InitSpecLabels /\ [][NextLabels]_vars

InitSpecMain == InitMain /\ IdlePayload /\ IdleLabel /\ IdleLabels /\ IdleEval
SpecMain == InitSpecMain /\ [][NextMain]_vars

InitSpecEval == InitEval /\ IdlePayload /\ IdleLabel /\ IdleLabels /\ IdleMain
SpecEval == InitSpecEval /\ [][NextEval]_vars

=============================================================================
